---- MODULE Spec2Model ----
(***************************************************************************)
(* A model of aider/io.py: the completion engine FileContentCompleter and   *)
(* the console front end InputOutput (multiline input capture and the chat  *)
(* history transcript).                                                     *)
(*                                                                          *)
(* A Python str is a sequence of one-character strings.  In the transcript  *)
(* part a run of characters that holds no whitespace ("####", "<blank>",    *)
(* "aider", a date, a word of a message) may be written as one element: the *)
(* code only concatenates, strips whitespace and splits lines there, and    *)
(* none of these looks inside such a run.                                   *)
(***************************************************************************)
EXTENDS Integers, Sequences, FiniteSets, TLC

VARIABLES
    \* ---- FileContentCompleter
    commands,             \* what self.commands.get_commands() returns
    addable_rel_fnames,   \* self.addable_rel_fnames
    rel_fnames,           \* self.rel_fnames
    lexed,                \* rel_fname -> outcome of the lexer on the file
    words,                \* self.words
    fname_to_rel_fnames,  \* self.fname_to_rel_fnames
    words0,               \* self.words right after __init__
    fname_to_rel_fnames0, \* self.fname_to_rel_fnames right after __init__
    text,                 \* document.text_before_cursor of the last call
    completions,          \* what the last get_completions call yielded
    \* ---- InputOutput
    chat_history_file,    \* "None" or "path"
    yes,                  \* self.yes
    current_time,         \* the timestamp taken in __init__
    history,              \* the content written to chat_history_file
    pc,                   \* "idle", or "prompt": get_input blocked in session.prompt()
    inp,                  \* get_input's local inp (<<>> while no request runs)
    multiline_input,      \* get_input's local multiline_input (FALSE likewise)
    lines,                \* the lines session.prompt() returned to this request
    ret,                  \* how the last get_input request ended, and on what lines
    calls,                \* the recorded operations, in call order
    \* ---- append_chat_history on its own
    fmt_args,             \* the arguments of the last call
    fmt_out               \* the text it produced

cvars == <<commands, addable_rel_fnames, rel_fnames, lexed, words,
           fname_to_rel_fnames, words0, fname_to_rel_fnames0, text, completions>>
iovars == <<chat_history_file, yes, current_time, history, pc, inp,
            multiline_input, lines, ret, calls>>
fvars == <<fmt_args, fmt_out>>
vars == <<cvars, iovars, fvars>>

----------------------------------------------------------------------------
(* Bounds *)

MaxTextLen == 3

MaxLines == 4

MaxOps == 2

MaxFormatLen == 3

----------------------------------------------------------------------------
(* str helpers *)

Range(s) == {s[i] : i \in DOMAIN s}

\* str.isspace() of one character
isspace(c) == c \in {" ", "\n"}

\* str.lower()
LowerChar(c) ==
    CASE c = "F" -> "f"
      [] c = "O" -> "o"
      [] c = "A" -> "a"
      [] OTHER -> c

lower(s) == [i \in DOMAIN s |-> LowerChar(s[i])]

\* str.startswith
startswith(s, p) == Len(p) <= Len(s) /\ SubSeq(s, 1, Len(p)) = p

RECURSIVE lstrip(_)
lstrip(s) ==
    IF s # <<>> /\ isspace(Head(s)) THEN lstrip(Tail(s)) ELSE s

RECURSIVE rstrip(_)
rstrip(s) ==
    IF s # <<>> /\ isspace(s[Len(s)]) THEN rstrip(SubSeq(s, 1, Len(s) - 1)) ELSE s

strip(s) == lstrip(rstrip(s))

\* str.split(): the maximal runs of non-whitespace, in order
RECURSIVE SplitFrom(_, _, _)
SplitFrom(s, cur, acc) ==
    IF s = <<>> THEN (IF cur = <<>> THEN acc ELSE Append(acc, cur))
    ELSE IF isspace(Head(s))
         THEN SplitFrom(Tail(s), <<>>, IF cur = <<>> THEN acc ELSE Append(acc, cur))
         ELSE SplitFrom(Tail(s), Append(cur, Head(s)), acc)

split(s) == SplitFrom(s, <<>>, <<>>)

\* os.path.basename: what follows the last "/"
RECURSIVE basename(_)
basename(p) ==
    IF \E i \in DOMAIN p : p[i] = "/" THEN basename(Tail(p)) ELSE p

\* all sequences over S of length at most n
SeqsUpTo(S, n) == UNION {[1..k -> S] : k \in 0..n}

----------------------------------------------------------------------------
(* FileContentCompleter *)

\* the files the completer can be built over
PathUniverse ==
    { <<"f", "o">>, <<"o", "/", "f", "o">>, <<"f", "/", "f", "o">> }

\* duplicate-free lists of paths (the caller derives them from sets of files)
PathLists ==
    {s \in SeqsUpTo(PathUniverse, Cardinality(PathUniverse)) :
        \A i, j \in DOMAIN s : i # j => s[i] # s[j]}

InContextLists == {s \in PathLists : Len(s) <= 1}

\* what guess_lexer_for_filename / lexer.get_tokens give for one file:
\* no lexer (ClassNotFound), or a list of (token type, text) pairs
LexOutcomes ==
    { [found |-> FALSE, tokens |-> <<>>],
      [found |-> TRUE, tokens |-> <<>>],
      [found |-> TRUE, tokens |-> << <<"Name", <<"f", "o">> >> >>],
      [found |-> TRUE, tokens |-> << <<"Name", <<"F", "o", "o">> >>,
                                     <<"Text", <<" ">> >>,
                                     <<"Name", <<"o", "F">> >> >>] }

\* what commands.get_commands() may return
CommandLists ==
    { << <<"f", "o", "o">>, <<"b", "a", "r">> >>,
      << <<"/", "f", "o", "o">>, <<"/", "b", "a", "r">> >>,
      << <<"/", "F", "o">>, <<"/", "f", "o", "o">>, <<"f", "o">> >> }

\* what commands.get_command_completions(cmd, partial) may yield
DelegateResults ==
    { {}, {[text |-> <<"o", "/", "f", "o">>, start_position |-> 0]} }

TextChars == {"/", " ", "f", "F", "o"}

\* __init__, lines 24-29: basename -> the addable paths it is short for
RECURSIVE AliasMap(_, _)
AliasMap(addable, n) ==
    IF n = 0 THEN <<>>
    ELSE LET m == AliasMap(addable, n - 1)
             rel_fname == addable[n]
             fname == basename(rel_fname)
         IN  IF fname # rel_fname
             THEN [k \in DOMAIN m \cup {fname} |->
                     IF k = fname
                     THEN (IF k \in DOMAIN m THEN Append(m[k], rel_fname)
                                             ELSE <<rel_fname>>)
                     ELSE m[k]]
             ELSE m

\* the bug "fname_to_rel_fnames[fname] = [rel_fname]": the last path wins
BuildAliasMap_LastOnly(addable) ==
    LET m == AliasMap(addable, Len(addable))
    IN  [k \in DOMAIN m |-> <<m[k][Len(m[k])]>>]

BuildAliasMap(addable) == AliasMap(addable, Len(addable))

\* line 46: the texts of the tokens whose type is in Token.Name
NameTokens(outcome) ==
    IF outcome.found
    THEN {outcome.tokens[i][2] :
            i \in {j \in DOMAIN outcome.tokens : outcome.tokens[j][1] = "Name"}}
    ELSE {}

\* __init__, lines 31-46
BuildWords(addable, rel, lex) ==
    Range(addable) \cup Range(rel) \cup UNION {NameTokens(lex[f]) : f \in Range(rel)}

\* dict.get(word, [])
MapGet(m, word) == IF word \in DOMAIN m THEN m[word] ELSE <<>>

Completion(t, last_word) == [text |-> t, start_position |-> 0 - Len(last_word)]

\* the bug "word.startswith(last_word)": the case of the letters matters
Yielded_CaseSensitive(candidates, last_word, m) ==
    UNION { IF MapGet(m, word) # <<>>
            THEN {Completion(rel_fname, last_word) : rel_fname \in Range(MapGet(m, word))}
            ELSE {Completion(word, last_word)} :
            word \in {w \in candidates : startswith(w, last_word)} }

\* lines 65-73: the completions yielded from a candidate pool, as a set (the
\* pool is a set or a list and the order of the yields is that of its iteration)
Yielded(candidates, last_word, m) ==
    UNION { IF MapGet(m, word) # <<>>
            THEN {Completion(rel_fname, last_word) : rel_fname \in Range(MapGet(m, word))}
            ELSE {Completion(word, last_word)} :
            word \in {w \in candidates : startswith(lower(w), lower(last_word))} }

\* line 63: candidates = self.words; candidates.update(set(self.fname_to_rel_fnames))
\* candidates is the very set object self.words
UpdatedWords(ws, m) == ws \cup DOMAIN m

\* one call of get_completions, consumed to the end
get_completions(t) ==
    LET ws == split(t)
        last_word == ws[Len(ws)]
    IN  /\ text' = t
        /\ IF ws = <<>>
           THEN /\ completions' = {}
                /\ words' = words
           ELSE IF t[1] = "/"
           THEN /\ words' = words
                /\ IF Len(ws) = 1 /\ ~isspace(t[Len(t)])
                   THEN completions' = Yielded(Range(commands), last_word, fname_to_rel_fnames)
                   ELSE completions' \in DelegateResults
           ELSE /\ words' = UpdatedWords(words, fname_to_rel_fnames)
                /\ completions' = Yielded(words', last_word, fname_to_rel_fnames)
        /\ UNCHANGED <<commands, addable_rel_fnames, rel_fnames, lexed,
                       fname_to_rel_fnames, words0, fname_to_rel_fnames0>>
        /\ UNCHANGED <<iovars, fvars>>

----------------------------------------------------------------------------
(* InputOutput *)

endswith(s, c) == s # <<>> /\ s[Len(s)] = c

\* sep.join(parts)
RECURSIVE join(_, _)
join(sep, parts) ==
    IF parts = <<>> THEN <<>>
    ELSE IF Len(parts) = 1 THEN parts[1]
    ELSE parts[1] \o sep \o join(sep, Tail(parts))

\* str.splitlines(): the pieces between newlines; a final newline opens no piece
RECURSIVE SplitLinesFrom(_, _, _)
SplitLinesFrom(s, cur, acc) ==
    IF s = <<>> THEN (IF cur = <<>> THEN acc ELSE Append(acc, cur))
    ELSE IF Head(s) = "\n"
         THEN SplitLinesFrom(Tail(s), <<>>, Append(acc, cur))
         ELSE SplitLinesFrom(Tail(s), Append(cur, Head(s)), acc)

splitlines(s) == SplitLinesFrom(s, <<>>, <<>>)

\* the bug of a blockquote that is not trimmed
Format_NoStrip(t, linebreak, blockquote) ==
    LET t1 == IF blockquote THEN <<">", " ">> \o t ELSE t
        t2 == IF linebreak THEN rstrip(t1) \o <<" ", " ", "\n">> ELSE t1
    IN  IF ~endswith(t2, "\n") THEN t2 \o <<"\n">> ELSE t2

\* the bug of a soft break added behind whatever the text ends in
Format_NoRStrip(t, linebreak, blockquote) ==
    LET t1 == IF blockquote THEN <<">", " ">> \o strip(t) ELSE t
        t2 == IF linebreak THEN t1 \o <<" ", " ", "\n">> ELSE t1
    IN  IF ~endswith(t2, "\n") THEN t2 \o <<"\n">> ELSE t2

\* append_chat_history, lines 223-230: the text that is written
Format(t, linebreak, blockquote) ==
    LET t1 == IF blockquote THEN <<">", " ">> \o strip(t) ELSE t
        t2 == IF linebreak THEN rstrip(t1) \o <<" ", " ", "\n">> ELSE t1
    IN  IF ~endswith(t2, "\n") THEN t2 \o <<"\n">> ELSE t2

\* the bug open("w"): the file is truncated
FileWrite_Truncate(content, data) == data

\* lines 232-233: open("a") and write
FileWrite(content, data) == content \o data

\* append_chat_history, lines 231-233: the file after the call
Appended(file, content, t, linebreak, blockquote) ==
    IF file # "None"
    THEN FileWrite(content, Format(t, linebreak, blockquote))
    ELSE content

\* __init__, lines 105-106: the text of the header record
HeaderText(time) ==
    <<"\n", "#", " ", "aider", " ", "chat", " ", "started", " ", "at", " ">>
        \o time \o <<"\n", "\n">>

\* get_input, lines 160-169: the text of the input echo
EchoText(i) ==
    LET prefix == <<"####">>
        hist == IF i # <<>> THEN splitlines(i) ELSE << <<"<blank>">> >>
    IN  <<"\n">> \o prefix \o <<" ">>
            \o join(<<" ", " ", "\n">> \o prefix \o <<" ">>, hist)

\* ai_output, line 177
AiOutputText(content) == <<"\n">> \o strip(content) \o <<"\n", "\n">>

\* confirm_ask and prompt_ask, lines 186 and 199
AskText(question, res) == strip(question) \o <<" ">> \o strip(res)

\* tool, lines 214-215
ToolText(messages) == strip(join(<<" ">>, messages))

\* datetime.now().strftime("%Y-%m-%d %H:%M:%S")
TimeStamps ==
    { <<"2023-05-12", " ", "09:30:00">>, <<"2023-12-31", " ", "23:59:59">> }

\* how a get_input request ended: kind "value" with the returned value and the
\* lines it read, or kind "raised", buffered telling whether inp held anything
NoReturn == [kind |-> "none", value |-> <<>>, lines |-> <<>>, buffered |-> FALSE]

Returned(v, ls) == [kind |-> "value", value |-> v, lines |-> ls, buffered |-> FALSE]

Raised(buffer) ==
    [kind |-> "raised", value |-> <<>>, lines |-> <<>>, buffered |-> buffer # <<>>]

\* get_input, lines 108-123: up to the first session.prompt()
get_input_call ==
    /\ pc = "idle"
    /\ pc' = "prompt"
    /\ inp' = <<>>
    /\ multiline_input' = FALSE
    /\ lines' = <<>>
    /\ UNCHANGED <<chat_history_file, yes, current_time, history, ret, calls>>
    /\ UNCHANGED <<cvars, fvars>>

\* the bug "inp += line": the lines of a multiline input run together
LoopTurn_NoNewline(i, multiline, line) ==
    IF strip(line) = <<"{">> /\ ~multiline
    THEN [inp |-> i, multiline_input |-> TRUE, done |-> FALSE]
    ELSE IF strip(line) = <<"}">> /\ multiline
    THEN [inp |-> i, multiline_input |-> multiline, done |-> TRUE]
    ELSE IF multiline
    THEN [inp |-> i \o line, multiline_input |-> multiline, done |-> FALSE]
    ELSE [inp |-> line, multiline_input |-> multiline, done |-> TRUE]

\* get_input, lines 147-156: one turn of the loop on the line read.
\* [inp, multiline_input, done]: done when the loop breaks
LoopTurn(i, multiline, line) ==
    IF strip(line) = <<"{">> /\ ~multiline
    THEN [inp |-> i, multiline_input |-> TRUE, done |-> FALSE]
    ELSE IF strip(line) = <<"}">> /\ multiline
    THEN [inp |-> i, multiline_input |-> multiline, done |-> TRUE]
    ELSE IF multiline
    THEN [inp |-> i \o line \o <<"\n">>, multiline_input |-> multiline, done |-> FALSE]
    ELSE [inp |-> line, multiline_input |-> multiline, done |-> TRUE]

\* get_input, lines 145-172: session.prompt() returns line; when the loop breaks
\* the echo is appended and inp returned
prompt_returns(line) ==
    LET turn == LoopTurn(inp, multiline_input, line)
    IN  /\ pc = "prompt"
        /\ IF ~turn.done
           THEN /\ inp' = turn.inp
                /\ multiline_input' = turn.multiline_input
                /\ lines' = Append(lines, line)
                /\ UNCHANGED <<pc, history, ret, calls>>
           ELSE /\ history' = Appended(chat_history_file, history,
                                       EchoText(turn.inp), TRUE, FALSE)
                /\ ret' = Returned(turn.inp, Append(lines, line))
                /\ calls' = Append(calls, [op |-> "get_input", args |-> <<turn.inp>>])
                /\ pc' = "idle"
                /\ inp' = <<>>
                /\ multiline_input' = FALSE
                /\ lines' = <<>>
    /\ UNCHANGED <<chat_history_file, yes, current_time>>
    /\ UNCHANGED <<cvars, fvars>>

\* the bug of an "except: break" around the read: what was buffered is echoed
\* and returned
prompt_raises_Swallowed ==
    /\ pc = "prompt"
    /\ pc' = "idle"
    /\ history' = Appended(chat_history_file, history, EchoText(inp), TRUE, FALSE)
    /\ ret' = Raised(inp)
    /\ calls' = Append(calls, [op |-> "get_input", args |-> <<inp>>])
    /\ inp' = <<>>
    /\ multiline_input' = FALSE
    /\ lines' = <<>>
    /\ UNCHANGED <<chat_history_file, yes, current_time>>
    /\ UNCHANGED <<cvars, fvars>>

\* get_input, line 145: session.prompt() raises (KeyboardInterrupt, EOFError, an
\* I/O error); nothing catches it and the frame with inp is dropped
prompt_raises ==
    /\ pc = "prompt"
    /\ pc' = "idle"
    /\ ret' = Raised(inp)
    /\ inp' = <<>>
    /\ multiline_input' = FALSE
    /\ lines' = <<>>
    /\ UNCHANGED <<chat_history_file, yes, current_time, history, calls>>
    /\ UNCHANGED <<cvars, fvars>>

\* an operation that appends one record (or none: t = <<>> with record FALSE)
Recorded(op, args, record, t, linebreak, blockquote) ==
    /\ pc = "idle"
    /\ history' = IF record
                  THEN Appended(chat_history_file, history, t, linebreak, blockquote)
                  ELSE history
    /\ calls' = Append(calls, [op |-> op, args |-> args])
    /\ UNCHANGED <<chat_history_file, yes, current_time, pc, inp,
                   multiline_input, lines, ret>>
    /\ UNCHANGED <<cvars, fvars>>

\* lines 176-178
ai_output(content) ==
    Recorded("ai_output", <<content>>, TRUE, AiOutputText(content), FALSE, FALSE)

\* lines 180-191; res is what prompt() returns when self.yes is off
confirm_ask(question, res) ==
    LET r == IF yes THEN <<"yes">> ELSE res
    IN  Recorded("confirm_ask", <<question, r>>, TRUE, AskText(question, r), TRUE, TRUE)

\* lines 193-202
prompt_ask(question, res) ==
    LET r == IF yes THEN <<"yes">> ELSE res
    IN  Recorded("prompt_ask", <<question, r>>, TRUE, AskText(question, r), TRUE, TRUE)

\* lines 204-210
tool_error(message) ==
    Recorded("tool_error", <<message>>, strip(message) # <<>>, strip(message), TRUE, TRUE)

\* lines 212-220
tool(messages) ==
    Recorded("tool", messages, messages # <<>>, ToolText(messages), TRUE, TRUE)

\* InputOutput(chat_history_file=...) right after __init__
InitIO ==
    /\ chat_history_file \in {"None", "path"}
    /\ current_time \in TimeStamps
    /\ history = Appended(chat_history_file, <<>>, HeaderText(current_time), FALSE, FALSE)
    /\ pc = "idle"
    /\ inp = <<>>
    /\ multiline_input = FALSE
    /\ lines = <<>>
    /\ ret = NoReturn
    /\ calls = <<>>

CompleterIdle ==
    /\ commands = <<>>
    /\ addable_rel_fnames = <<>>
    /\ rel_fnames = <<>>
    /\ lexed = <<>>
    /\ words = {}
    /\ fname_to_rel_fnames = <<>>
    /\ words0 = {}
    /\ fname_to_rel_fnames0 = <<>>
    /\ text = <<>>
    /\ completions = {}

IOIdle ==
    /\ chat_history_file = "None"
    /\ yes = FALSE
    /\ current_time = <<>>
    /\ history = <<>>
    /\ pc = "idle"
    /\ inp = <<>>
    /\ multiline_input = FALSE
    /\ lines = <<>>
    /\ ret = NoReturn
    /\ calls = <<>>

FmtIdle ==
    /\ fmt_args = [text |-> <<>>, linebreak |-> FALSE, blockquote |-> FALSE]
    /\ fmt_out = <<>>

----------------------------------------------------------------------------
(* Specification Spec: one InputOutput answering get_input requests *)

\* the lines the user may submit
InputLines ==
    { <<>>, <<" ">>, <<"line1">>, <<"line2">>, <<"a", " ">>,
      <<"{">>, <<" ", "{", " ">>, <<"}">>, <<" ", "}">> }

GetInput ==
    /\ calls = <<>>
    /\ get_input_call

PromptReturns ==
    \E line \in InputLines :
        /\ Len(lines) < MaxLines
        /\ prompt_returns(line)

PromptRaises == prompt_raises

Init ==
    /\ InitIO
    /\ yes = FALSE
    /\ CompleterIdle
    /\ FmtIdle

Next == GetInput \/ PromptReturns \/ PromptRaises

Spec == Init /\ [][Next]_vars

----------------------------------------------------------------------------
(* Specification SpecTranscript: every recorded operation, in any order *)

ShortLines == { <<"a">>, <<"{">>, <<"}">> }

Messages == { <<"a">>, <<" ">>, <<" ", "b", "\n">> }

Questions == { <<"ok?">>, <<" ", "add", " ", "it?", " ">> }

Responses == { <<"y">>, <<>> }

TGetInput ==
    /\ Len(calls) < MaxOps
    /\ get_input_call

TPromptReturns ==
    \E line \in ShortLines :
        /\ Len(lines) < MaxLines
        /\ prompt_returns(line)

TPromptRaises == prompt_raises

AiOutput ==
    \E content \in Messages :
        /\ Len(calls) < MaxOps
        /\ ai_output(content)

ConfirmAsk ==
    \E question \in Questions, res \in Responses :
        /\ Len(calls) < MaxOps
        /\ confirm_ask(question, res)

PromptAsk ==
    \E question \in Questions, res \in Responses :
        /\ Len(calls) < MaxOps
        /\ prompt_ask(question, res)

ToolError ==
    \E message \in Messages :
        /\ Len(calls) < MaxOps
        /\ tool_error(message)

Tool ==
    \E messages \in SeqsUpTo(Messages \ {<<" ">>}, 2) :
        /\ Len(calls) < MaxOps
        /\ tool(messages)

InitTranscript ==
    /\ InitIO
    /\ yes \in BOOLEAN
    /\ CompleterIdle
    /\ FmtIdle

NextTranscript ==
    \/ TGetInput
    \/ TPromptReturns
    \/ TPromptRaises
    \/ AiOutput
    \/ ConfirmAsk
    \/ PromptAsk
    \/ ToolError
    \/ Tool

SpecTranscript == InitTranscript /\ [][NextTranscript]_vars

----------------------------------------------------------------------------
(* Specification SpecFormat: append_chat_history as a function of its arguments *)

FormatChars == {"a", " ", "\n"}

FormatTexts == SeqsUpTo(FormatChars, MaxFormatLen) \cup {<<"h", "e", "l", "l", "o">>}

AppendChatHistory ==
    \E t \in FormatTexts, linebreak \in BOOLEAN, blockquote \in BOOLEAN :
        /\ fmt_args' = [text |-> t, linebreak |-> linebreak, blockquote |-> blockquote]
        /\ fmt_out' = Appended("path", <<>>, t, linebreak, blockquote)
        /\ UNCHANGED <<cvars, iovars>>

InitFormat ==
    /\ FmtIdle
    /\ CompleterIdle
    /\ IOIdle

NextFormat == AppendChatHistory

SpecFormat == InitFormat /\ [][NextFormat]_vars

----------------------------------------------------------------------------
(* Specification SpecCompleter: one completer while the user edits the line *)

\* the user types a character and the prompt asks for completions
TypeChar ==
    \E c \in TextChars :
        /\ Len(text) < MaxTextLen
        /\ get_completions(Append(text, c))

\* the user deletes a character and the prompt asks for completions
Backspace ==
    /\ text # <<>>
    /\ get_completions(SubSeq(text, 1, Len(text) - 1))

\* a completer right after FileContentCompleter(root, rel_fnames, addable_rel_fnames, commands)
InitCompleter ==
    /\ commands \in CommandLists
    /\ addable_rel_fnames \in PathLists
    /\ rel_fnames \in InContextLists
    /\ lexed \in [Range(rel_fnames) -> LexOutcomes]
    /\ fname_to_rel_fnames = BuildAliasMap(addable_rel_fnames)
    /\ words = BuildWords(addable_rel_fnames, rel_fnames, lexed)
    /\ words0 = words
    /\ fname_to_rel_fnames0 = fname_to_rel_fnames
    /\ text = <<>>
    /\ completions = {}
    /\ IOIdle
    /\ FmtIdle

NextCompleter == TypeChar \/ Backspace

SpecCompleter == InitCompleter /\ [][NextCompleter]_vars

----------------------------------------------------------------------------
(* Claims about get_input (specification Spec) *)

\* l1 + "\n" + ... + ln + "\n"
RECURSIVE ConcatLines(_)
ConcatLines(ls) ==
    IF ls = <<>> THEN <<>> ELSE Head(ls) \o <<"\n">> \o ConcatLines(Tail(ls))

\* C1: a request whose first line trims to "{" ends on the first later line that
\* trims to "}", and returns the lines in between, each followed by a newline,
\* in read order, without the two delimiter lines.
C1_MultilineCapture ==
    (ret.kind = "value" /\ strip(ret.lines[1]) = <<"{">>) =>
        LET n == Len(ret.lines)
        IN  /\ n >= 2
            /\ strip(ret.lines[n]) = <<"}">>
            /\ \A i \in 2..(n - 1) : strip(ret.lines[i]) # <<"}">>
            /\ ret.value = ConcatLines(SubSeq(ret.lines, 2, n - 1))

C1_Witness ==
    ret = Returned(<<"line1", "\n", "line2", "\n">>,
                   << <<"{">>, <<"line1">>, <<"line2">>, <<"}">> >>)

\* the lines echoed for a finalized input
EchoedLines(v) == IF v = <<>> THEN << <<"<blank>">> >> ELSE splitlines(v)

\* every line as "#### " + line + soft break
RECURSIVE MarkedLines(_)
MarkedLines(ls) ==
    IF ls = <<>> THEN <<>>
    ELSE <<"####", " ">> \o Head(ls) \o <<" ", " ", "\n">> \o MarkedLines(Tail(ls))

\* the same, the last line with the whitespace that ends it removed
MarkedLinesLastTrimmed(ls) ==
    MarkedLines(SubSeq(ls, 1, Len(ls) - 1))
        \o rstrip(<<"####", " ">> \o ls[Len(ls)]) \o <<" ", " ", "\n">>

\* C8 as stated: a finalized get_input appends one record: a blank line, then
\* every line of the input as "#### " + line + soft break ("#### <blank>" for
\* an empty input).
C8_Original ==
    (ret.kind = "value" /\ chat_history_file # "None") =>
        history = HeaderText(current_time) \o <<"\n">> \o MarkedLines(EchoedLines(ret.value))

\* C8 as amended: the same, except that the whitespace that ends the last line
\* (and, when that line is blank, the space that ends its marker) is removed
\* before the closing soft break.
C8_InputEcho ==
    (ret.kind = "value" /\ chat_history_file # "None") =>
        history = HeaderText(current_time) \o <<"\n">>
                    \o MarkedLinesLastTrimmed(EchoedLines(ret.value))

C8_Witness ==
    /\ chat_history_file # "None"
    /\ ret = Returned(<<"line1", "\n", "a", " ", "\n">>,
                      << <<" ", "{", " ">>, <<"line1">>, <<"a", " ">>, <<" ", "}">> >>)

\* the logical input a request returns on the lines it read
LogicalInput(ls) ==
    IF strip(ls[1]) = <<"{">> THEN ConcatLines(SubSeq(ls, 2, Len(ls) - 1)) ELSE ls[1]

\* C9: a read that raises ends the request with no logical input and leaves the
\* transcript as it was; a request begins in single-line mode with an empty
\* buffer, and what a request returns is decided by its own lines alone.
C9_Interrupt ==
    /\ [](ret.kind = "value" => ret.value = LogicalInput(ret.lines))
    /\ [][ /\ (pc = "prompt" /\ pc' = "idle" /\ ret'.kind = "raised") =>
                (history' = history /\ calls' = calls /\ ret'.value = <<>>)
           /\ (pc = "idle" /\ pc' = "prompt") =>
                (inp' = <<>> /\ ~multiline_input' /\ lines' = <<>>) ]_vars

C9_Witness ==
    /\ ret.kind = "raised"
    /\ ret.buffered
    /\ pc = "prompt"
    /\ multiline_input
    /\ inp = <<"line2", "\n">>

----------------------------------------------------------------------------
(* Claims about the transcript (specification SpecTranscript) *)

\* the record an operation leaves, from its arguments
RecordOf(call) ==
    CASE call.op = "get_input" -> Format(EchoText(call.args[1]), TRUE, FALSE)
      [] call.op = "ai_output" -> Format(AiOutputText(call.args[1]), FALSE, FALSE)
      [] call.op \in {"confirm_ask", "prompt_ask"} ->
            Format(AskText(call.args[1], call.args[2]), TRUE, TRUE)
      [] call.op = "tool_error" ->
            IF strip(call.args[1]) = <<>> THEN <<>>
            ELSE Format(strip(call.args[1]), TRUE, TRUE)
      [] call.op = "tool" ->
            IF call.args = <<>> THEN <<>> ELSE Format(ToolText(call.args), TRUE, TRUE)

RECURSIVE Records(_)
Records(cs) == IF cs = <<>> THEN <<>> ELSE RecordOf(Head(cs)) \o Records(Tail(cs))

IsPrefix(s, t) == Len(s) <= Len(t) /\ SubSeq(t, 1, Len(s)) = s

\* C7: with a destination, the transcript is the header record followed by the
\* records of the operations in call order, and a step only appends to it.
C7_TranscriptOrder ==
    /\ [](chat_history_file # "None" =>
            history = HeaderText(current_time) \o Records(calls))
    /\ [][IsPrefix(history, history')]_vars

C7_Witness ==
    /\ chat_history_file # "None"
    /\ Len(calls) = 2
    /\ calls[1].op = "get_input"
    /\ calls[1].args = << <<"a", "\n">> >>
    /\ calls[2] = [op |-> "tool", args |-> << <<"a">>, <<" ", "b", "\n">> >>]

----------------------------------------------------------------------------
(* Claims about append_chat_history (specification SpecFormat) *)

SoftBreak == <<" ", " ", "\n">>

\* C6 as stated: with linebreak and blockquote the text written is "> ", the
\* trimmed text, two spaces and a newline.
C6_Original ==
    (fmt_args.linebreak /\ fmt_args.blockquote) =>
        fmt_out = <<">", " ">> \o strip(fmt_args.text) \o SoftBreak

\* C6 as amended: so it is for a text that holds a character other than
\* whitespace; for an empty or all-whitespace text the record is ">" followed
\* by two spaces and a newline.
C6_BlockquoteLine ==
    (fmt_args.linebreak /\ fmt_args.blockquote) =>
        fmt_out = IF strip(fmt_args.text) # <<>>
                  THEN <<">", " ">> \o strip(fmt_args.text) \o SoftBreak
                  ELSE <<">">> \o SoftBreak

C6_Witness ==
    /\ fmt_args = [text |-> <<"h", "e", "l", "l", "o">>,
                   linebreak |-> TRUE, blockquote |-> TRUE]
    /\ fmt_out = <<">", " ", "h", "e", "l", "l", "o", " ", " ", "\n">>

----------------------------------------------------------------------------
(* Claims about get_completions (specification SpecCompleter) *)

CompletionTexts == {c.text : c \in completions}

TypedWords == split(text)

LastWord == TypedWords[Len(TypedWords)]

\* the text is one word that starts with "/" and ends in no whitespace
CommandMode ==
    /\ Len(TypedWords) = 1
    /\ text[1] = "/"
    /\ ~isspace(text[Len(text)])

FreeTextMode == TypedWords # <<>> /\ text[1] # "/"

KnownPaths == Range(addable_rel_fnames) \cup Range(rel_fnames)

\* C2 as stated: in command mode the completions are the command names that
\* start, whatever the case, with what is typed behind the "/"; so "/fo" over
\* the names foo and bar gives foo.
C2_Original ==
    CommandMode =>
        CompletionTexts =
            {n \in Range(commands) : startswith(lower(n), lower(Tail(text)))}

\* C2 as amended: the completions are the names get_commands returns that
\* start, whatever the case, with the whole typed word, its "/" included.
C2_CommandCompletion ==
    CommandMode =>
        CompletionTexts = {n \in Range(commands) : startswith(lower(n), lower(text))}

C2_Witness ==
    /\ text = <<"/", "F", "o">>
    /\ commands = << <<"/", "f", "o", "o">>, <<"/", "b", "a", "r">> >>
    /\ CompletionTexts = { <<"/", "f", "o", "o">> }

\* C3: get_completions leaves self.words and self.fname_to_rel_fnames as
\* __init__ made them.
C3_Purity ==
    /\ words = words0
    /\ fname_to_rel_fnames = fname_to_rel_fnames0

\* C4: for an addable path with a directory part whose basename b is no known
\* path, a free-text last word that is a prefix of b, whatever the case, gives
\* every addable path with basename b, and never b itself.
C4_AliasExpansion ==
    FreeTextMode =>
        \A p \in Range(addable_rel_fnames) :
            LET b == basename(p)
            IN  ( /\ b # p
                  /\ b \notin KnownPaths
                  /\ startswith(lower(b), lower(LastWord)) ) =>
                    /\ \A q \in Range(addable_rel_fnames) :
                            basename(q) = b => q \in CompletionTexts
                    /\ b \notin CompletionTexts

C4_Witness ==
    /\ text = <<" ", "F">>
    /\ Range(addable_rel_fnames) = { <<"o", "/", "f", "o">>, <<"f", "/", "f", "o">> }
    /\ <<"f", "o">> \notin Range(rel_fnames)
    /\ CompletionTexts = { <<"o", "/", "f", "o">>, <<"f", "/", "f", "o">> }

\* C5: a free-text last word that is a prefix, whatever the case, of a name
\* token of an in-context file gives that token.
C5_TokenCompletion ==
    FreeTextMode =>
        \A f \in Range(rel_fnames) :
            \A t \in NameTokens(lexed[f]) :
                startswith(lower(t), lower(LastWord)) => t \in CompletionTexts

\* C10: a free-text last word that is a prefix, whatever the case, of a known
\* path gives that path.
C10_PathCompletion ==
    FreeTextMode =>
        \A p \in KnownPaths :
            startswith(lower(p), lower(LastWord)) => p \in CompletionTexts

====
